---- MODULE Spec2Model ----
(***************************************************************************)
(* A model of SocialMediaGrabber (src/love.py): the download directory     *)
(* resolution, platform detection, quality probing and the quality menu,   *)
(* download_media, download_subtitles, batch_download and the two entry    *)
(* paths (interactive menu, command line).  The external extraction engine *)
(* (yt-dlp), the filesystem and the user are the environment: what they    *)
(* answer is drawn from small sets.                                        *)
(***************************************************************************)
EXTENDS Integers, Sequences, FiniteSets, TLC

(***************************************************************************)
(* Strings.  TLC evaluates Len, SubSeq and \o on strings, so Python's str  *)
(* operations are computed character by character.                          *)
(***************************************************************************)

\* Python's None where a str is expected (a value no str of the model equals).
None == "<None>"

\* s[i] of a Python str, 1-based.
Char(s, i) == SubSeq(s, i, i)

\* Python's `sub in s` for str.
IsIn(sub, s) ==
    \E i \in 1..(Len(s) - Len(sub) + 1) : SubSeq(s, i, i + Len(sub) - 1) = sub

UpperAlphabet == "ABCDEFGHIJKLMNOPQRSTUVWXYZ"

LowerAlphabet == "abcdefghijklmnopqrstuvwxyz"

LowerChar(c) ==
    IF \E i \in 1..Len(UpperAlphabet) : Char(UpperAlphabet, i) = c
    THEN Char(LowerAlphabet, CHOOSE i \in 1..Len(UpperAlphabet) : Char(UpperAlphabet, i) = c)
    ELSE c

\* str.lower()
RECURSIVE Lower(_)
Lower(s) == IF Len(s) = 0 THEN "" ELSE LowerChar(Char(s, 1)) \o Lower(Tail(s))

\* The whitespace characters a typed line can hold.
Whitespace == {" ", "\t"}

RECURSIVE LStrip(_)
LStrip(s) == IF Len(s) > 0 /\ Char(s, 1) \in Whitespace THEN LStrip(Tail(s)) ELSE s

RECURSIVE RStrip(_)
RStrip(s) ==
    IF Len(s) > 0 /\ Char(s, Len(s)) \in Whitespace
    THEN RStrip(SubSeq(s, 1, Len(s) - 1))
    ELSE s

\* str.strip()
Strip(s) == RStrip(LStrip(s))

\* str.rfind(c) for a one-character c, 1-based; 0 when c does not occur.
RFind(s, c) ==
    IF \E i \in 1..Len(s) : Char(s, i) = c
    THEN CHOOSE i \in 1..Len(s) :
            /\ Char(s, i) = c
            /\ \A j \in (i + 1)..Len(s) : Char(s, j) # c
    ELSE 0

\* str.replace(pat, rep): every occurrence, left to right.
RECURSIVE Replace(_, _, _)
Replace(s, pat, rep) ==
    IF Len(s) < Len(pat) THEN s
    ELSE IF SubSeq(s, 1, Len(pat)) = pat
         THEN rep \o Replace(SubSeq(s, Len(pat) + 1, Len(s)), pat, rep)
         ELSE Char(s, 1) \o Replace(Tail(s), pat, rep)

\* os.path.join(a, b) for a relative b (posix separator).
PathJoin(a, b) == IF Len(a) > 0 /\ Char(a, Len(a)) # "/" THEN a \o "/" \o b ELSE a \o b

\* os.path.splitext(p): the extension starts at the last dot of the last path
\* component, leading dots of that component not counted.
SplitExt(p) ==
    LET sepIndex == RFind(p, "/")
        dotIndex == RFind(p, ".")
    IN  IF /\ dotIndex > sepIndex
           /\ \E k \in (sepIndex + 1)..(dotIndex - 1) : Char(p, k) # "."
        THEN <<SubSeq(p, 1, dotIndex - 1), SubSeq(p, dotIndex, Len(p))>>
        ELSE <<p, "">>

\* str.endswith
EndsWith(s, suffix) ==
    Len(s) >= Len(suffix) /\ SubSeq(s, Len(s) - Len(suffix) + 1, Len(s)) = suffix

(***************************************************************************)
(* Platform detection.                                                     *)
(***************************************************************************)

\* self.supported_platforms, in the dict's insertion order.
supported_platforms ==
    << [name |-> "youtube",     domains |-> <<"youtube.com", "youtu.be">>],
       [name |-> "facebook",    domains |-> <<"facebook.com", "fb.watch">>],
       [name |-> "tiktok",      domains |-> <<"tiktok.com">>],
       [name |-> "instagram",   domains |-> <<"instagram.com">>],
       [name |-> "twitter",     domains |-> <<"twitter.com", "x.com">>],
       [name |-> "reddit",      domains |-> <<"reddit.com">>],
       [name |-> "vimeo",       domains |-> <<"vimeo.com">>],
       [name |-> "dailymotion", domains |-> <<"dailymotion.com", "dai.ly">>],
       [name |-> "soundcloud",  domains |-> <<"soundcloud.com">> ] >>

\* any(domain in url.lower() for domain in domains), given url.lower()
PlatformMatches(p, lowered) ==
    \E k \in 1..Len(p.domains) : IsIn(p.domains[k], lowered)

\* detect_platform(url): the first platform one of whose domains occurs in the
\* lower-cased url, else None.
detect_platform(url) ==
    LET lowered == Lower(url)
    IN  IF \E i \in 1..Len(supported_platforms) : PlatformMatches(supported_platforms[i], lowered)
        THEN supported_platforms[
                CHOOSE i \in 1..Len(supported_platforms) :
                    /\ PlatformMatches(supported_platforms[i], lowered)
                    /\ \A j \in 1..(i - 1) : ~PlatformMatches(supported_platforms[j], lowered)
             ].name
        ELSE None

(***************************************************************************)
(* The state.                                                              *)
(***************************************************************************)
VARIABLES
    host,           \* platform.system(), 'ANDROID_ROOT' in os.environ, 'termux' in sys.executable
    fs,             \* the filesystem: the condition of every path the program names
    download_dir,   \* self.download_dir
    dir_checked,    \* history: download_dir passed the marker-file check when it was last assigned
    resolved,       \* history: what the last get_default_download_dir did
    setdir,         \* history: what the last set_download_directory was asked and did
    pc,             \* the position of the (single) thread of control
    entry,          \* the handler in progress: a menu choice, the command line, a direct call
    argv,           \* sys.argv
    exit_code,      \* the status given to sys.exit, None while running
    url, download_type, quality,   \* the arguments of the download call in progress
    ydl_opts,       \* the options handed to the engine
    progress, task, \* self.progress, self.task
    completed,      \* the `completed` of self.task in self.progress, NoPercent without a display
    hooked,         \* history: the last call of ytdl_progress_hook in the download in progress
    result,         \* what the last download call returned: "True", "False" or "raised"
    filename,       \* the path printed by "Download complete"
    probe,          \* history: the engine's answer to the last metadata probe
    qualities,      \* get_available_qualities' list in show_quality_menu
    shown,          \* the rows of the quality table printed to the user
    choice,         \* the option chosen at the quality prompt, 0 if none was asked
    engine_log,     \* history: the engine calls made by the handler in progress
    urls, idx, success_count, total,   \* batch_download's urls, i, success_count, total
    attempted,      \* history: the urls batch_download passed to download_media, in order
    outcomes,       \* history: what download_media returned for each of them
    summary         \* the "n/m succeeded" line printed by batch_download

dirVars == <<host, fs, download_dir, dir_checked, resolved, setdir>>

trackVars == <<completed, hooked>>

dlVars == <<url, download_type, quality, ydl_opts, progress, task, trackVars, result, filename>>

menuVars == <<probe, qualities, shown, choice>>

batchVars == <<urls, idx, success_count, total, attempted, outcomes, summary>>

vars == <<dirVars, pc, entry, argv, exit_code, dlVars, menuVars, engine_log, batchVars>>

(***************************************************************************)
(* Bounds of the model.                                                    *)
(***************************************************************************)

\* The longest format list the engine's probe returns.
MaxFormats == 5

\* The most lines given to one direct call of batch_download.
MaxBatch == 3

\* The most bytes a progress sample counts.
MaxBytes == 3

\* The most lines typed at the batch prompt of the menu.
MaxTyped == 2

(***************************************************************************)
(* Quality probing: get_available_qualities.                               *)
(***************************************************************************)

\* f.get('height') of a format that has no height.
NoHeight == 0 - 1

\* The formats the engine may list: format_id, height, vcodec, ext, format_note.
\* Two share the height 720; one has no video stream; one has no known height.
EngineFormats ==
    { [format_id |-> "137", height |-> 1080, vcodec |-> "avc1", ext |-> "mp4", format_note |-> "1080p"],
      [format_id |-> "136", height |-> 720,  vcodec |-> "avc1", ext |-> "mp4", format_note |-> "720p"],
      [format_id |-> "22",  height |-> 720,  vcodec |-> "avc1", ext |-> "mp4", format_note |-> "hd720"],
      [format_id |-> "135", height |-> 480,  vcodec |-> "avc1", ext |-> "mp4", format_note |-> "480p"],
      [format_id |-> "18",  height |-> 360,  vcodec |-> "avc1", ext |-> "mp4", format_note |-> "360p"],
      [format_id |-> "160", height |-> 144,  vcodec |-> "avc1", ext |-> "mp4", format_note |-> "144p"],
      [format_id |-> "sb0", height |-> 360,  vcodec |-> "none", ext |-> "mhtml", format_note |-> "storyboard"],
      [format_id |-> "hls", height |-> NoHeight, vcodec |-> "avc1", ext |-> "mp4", format_note |-> ""] }

SeqsUpTo(S, n) == UNION { [1..k -> S] : k \in 0..n }

\* What ydl.extract_info(url, download=False) may do: raise, return nothing,
\* or return an info_dict with a list of formats.
ProbeAnswers(lists) ==
    { [kind |-> "raise", formats |-> <<>>], [kind |-> "none", formats |-> <<>>] }
        \cup { [kind |-> "info", formats |-> l] : l \in lists }

\* Every answer with at most MaxFormats formats.
AllProbeAnswers == ProbeAnswers(SeqsUpTo(EngineFormats, MaxFormats))

\* The condition of the list comprehension of video_formats.
IsVideoFormat(f) == f.vcodec # "none" /\ f.height # NoHeight

\* The list comprehension: the formats kept, in order.
RECURSIVE Filter(_)
Filter(fmts) ==
    IF fmts = <<>> THEN <<>>
    ELSE IF IsVideoFormat(Head(fmts)) THEN <<Head(fmts)>> \o Filter(Tail(fmts))
         ELSE Filter(Tail(fmts))

\* One step of the stable sort: f goes after every element whose height is at
\* least its own (list.sort keeps equal keys in their order, also with reverse=True).
InsertDesc(sorted, f) ==
    LET k == Cardinality({ i \in 1..Len(sorted) : sorted[i].height >= f.height })
    IN  SubSeq(sorted, 1, k) \o <<f>> \o SubSeq(sorted, k + 1, Len(sorted))

\* video_formats.sort(key=height, reverse=True)
RECURSIVE SortByHeightDesc(_)
SortByHeightDesc(fmts) ==
    IF fmts = <<>> THEN <<>>
    ELSE InsertDesc(SortByHeightDesc(SubSeq(fmts, 1, Len(fmts) - 1)), fmts[Len(fmts)])

\* The option made of a format.
QualityOf(f) ==
    [height |-> f.height, ext |-> f.ext, format_note |-> f.format_note, format_id |-> f.format_id]

\* A variant that never consults `seen`.
UniqueKeepsAll(fmts, seen) == [i \in 1..Len(fmts) |-> QualityOf(fmts[i])]

\* The loop over the sorted formats with the set `seen`.
RECURSIVE Unique(_, _)
Unique(fmts, seen) ==
    IF fmts = <<>> THEN <<>>
    ELSE IF Head(fmts).height \notin seen
         THEN <<QualityOf(Head(fmts))>> \o Unique(Tail(fmts), seen \cup {Head(fmts).height})
         ELSE Unique(Tail(fmts), seen)

\* get_available_qualities(url), given the engine's answer to the probe.
get_available_qualities(answer) ==
    IF answer.kind # "info" THEN <<>>
    ELSE Unique(SortByHeightDesc(Filter(answer.formats)), {})

(***************************************************************************)
(* The quality menu: show_quality_menu.                                    *)
(***************************************************************************)

\* The rows of the table: option number and what it stands for.
QualityTable(qs) ==
    <<[option |-> 1, row |-> "best", height |-> NoHeight]>>
    \o [i \in 1..(IF Len(qs) < 4 THEN Len(qs) ELSE 4) |->
            [option |-> i + 1, row |-> "height", height |-> qs[i].height]]
    \o <<[option |-> Len(qs) + 2, row |-> "manual", height |-> NoHeight]>>

\* The choices Prompt.ask accepts.
QualityChoices(qs) == 1..(Len(qs) + 2)

\* The format ids a user may type at the manual prompt.
ManualIds == {"best", "22"}

\* What show_quality_menu returns for a choice (and the id typed, if manual).
QualityChosen(qs, c, manual_id) ==
    IF c = 1 THEN "best"
    ELSE IF c = Len(qs) + 2 THEN manual_id
    ELSE qs[c - 1].format_id

(***************************************************************************)
(* The host and its filesystem.                                            *)
(***************************************************************************)

\* os.getcwd()
Cwd == "/work"

\* os.path.join(os.environ['USERPROFILE'], 'Downloads')
WindowsDownloads == PathJoin("C:/Users/u", "Downloads")

\* os.path.expanduser('~'): the Termux home on Android, else the user's.
HomeOf(h) == IF h.android_root THEN "/data/data/com.termux/files/home" ELSE "/home/u"

\* os.path.join(os.path.expanduser('~'), 'Downloads')
HomeDownloads(h) == PathJoin(HomeOf(h), "Downloads")

\* possible_dirs of get_default_download_dir and of check_termux_storage.
possible_dirs(h) ==
    << "/storage/emulated/0/Download",
       "/data/data/com.termux/files/home/storage/downloads",
       PathJoin(HomeOf(h), "downloads") >>

\* A path a user may type that none of the rules above names.
CustomDir == "/mnt/sd.card/media"

AndroidHost == [system |-> "Linux", android_root |-> TRUE, termux |-> FALSE]

DesktopHost == [system |-> "Linux", android_root |-> FALSE, termux |-> FALSE]

\* The hosts: Windows, Android (in Termux or not), desktop Linux, macOS and a
\* system platform.system() names otherwise.  Termux exports ANDROID_ROOT.
Hosts ==
    { [system |-> "Windows", android_root |-> FALSE, termux |-> FALSE],
      [system |-> "Linux",   android_root |-> TRUE,  termux |-> TRUE],
      AndroidHost,
      DesktopHost,
      [system |-> "Darwin",  android_root |-> FALSE, termux |-> FALSE],
      [system |-> "FreeBSD", android_root |-> FALSE, termux |-> FALSE] }

\* Every path the program or the user names.
Paths ==
    {Cwd, WindowsDownloads, HomeDownloads(DesktopHost), CustomDir}
        \cup { possible_dirs(AndroidHost)[i] : i \in 1..3 }

\* The condition of a path: a writable directory, a directory in which no file
\* can be created, nothing there but creatable, nothing there and not creatable.
PathStates == {"writable", "readonly", "absent", "blocked"}

\* The paths that can be there on host h; the others belong to other systems.
PathsOf(h) ==
    {Cwd, CustomDir}
        \cup (IF h.system = "Windows" THEN {WindowsDownloads} ELSE {})
        \cup (IF h.system \in {"Linux", "Darwin"} /\ ~h.android_root
                THEN {HomeDownloads(h)} ELSE {})
        \cup (IF h.android_root THEN { possible_dirs(h)[i] : i \in 1..3 } ELSE {})

\* The filesystems host h may have at start: the working directory exists, the
\* well-known Android locations exist or not, a path of another system is not
\* there and cannot be made.
FileSystems(h) ==
    { f \in [Paths -> PathStates] :
        /\ f[Cwd] \in {"writable", "readonly"}
        /\ \A p \in Paths \ PathsOf(h) : f[p] = "blocked"
        /\ \A i \in 1..3 : possible_dirs(AndroidHost)[i] \in PathsOf(h)
                => f[possible_dirs(AndroidHost)[i]] # "blocked" }

\* os.path.exists(p)
Exists(f, p) == f[p] \in {"writable", "readonly"}

\* os.makedirs(p, exist_ok=True): the filesystem after it, and whether it raised.
MakeDirs(f, p) ==
    IF Exists(f, p) THEN [fs |-> f, raised |-> FALSE]
    ELSE IF f[p] = "absent" THEN [fs |-> [f EXCEPT ![p] = "writable"], raised |-> FALSE]
    ELSE [fs |-> f, raised |-> TRUE]

\* Creating, writing and removing p/.write_test: TRUE when nothing raised.
MarkerFileCheck(f, p) == f[p] = "writable"

\* The first of dirs that exists, None if none does.
FirstExisting(f, dirs) ==
    IF \E i \in 1..Len(dirs) : Exists(f, dirs[i])
    THEN dirs[CHOOSE i \in 1..Len(dirs) :
                 Exists(f, dirs[i]) /\ \A j \in 1..(i - 1) : ~Exists(f, dirs[j])]
    ELSE None

\* The try block of get_default_download_dir on the candidate `downloads`:
\* the directory returned, the filesystem left, the number of times the block
\* ran and whether the candidate passed it.
VerifyOrFallback(f, downloads) ==
    LET made == IF Exists(f, downloads) THEN [fs |-> f, raised |-> FALSE] ELSE MakeDirs(f, downloads)
        ok   == ~made.raised /\ MarkerFileCheck(made.fs, downloads)
    IN  [dir |-> IF ok THEN downloads ELSE Cwd, fs |-> made.fs,
         candidate |-> downloads, verified |-> 1, passed |-> ok]

\* get_default_download_dir()
get_default_download_dir(h, f) ==
    IF h.system = "Windows" THEN VerifyOrFallback(f, WindowsDownloads)
    ELSE IF h.system = "Linux" /\ h.android_root
    THEN LET d == FirstExisting(f, possible_dirs(h))
         IN  [dir |-> IF d # None THEN d ELSE Cwd, fs |-> f,
              candidate |-> IF d # None THEN d ELSE Cwd, verified |-> 0, passed |-> FALSE]
    ELSE IF h.system \in {"Linux", "Darwin"} THEN VerifyOrFallback(f, HomeDownloads(h))
    ELSE VerifyOrFallback(f, Cwd)

\* What subprocess.run(['termux-setup-storage'], check=True) may do: grant the
\* storage (the shared Download folder and its link appear), leave everything
\* as it was, exit non-zero (CalledProcessError), or not be there
\* (FileNotFoundError).
SetupOutcomes == {"granted", "nothing", "failed", "missing"}

StorageGranted(f, h) ==
    [p \in Paths |->
        IF p \in {possible_dirs(h)[1], possible_dirs(h)[2]} /\ ~Exists(f, p)
        THEN "writable" ELSE f[p]]

\* check_termux_storage(): download_dir after it (None: left as it was), the
\* filesystem after it, and whether an exception left the constructor.
check_termux_storage(h, f, answer, setup) ==
    IF ~h.termux THEN [dir |-> None, fs |-> f, raised |-> FALSE]
    ELSE IF FirstExisting(f, possible_dirs(h)) # None
    THEN [dir |-> FirstExisting(f, possible_dirs(h)), fs |-> f, raised |-> FALSE]
    ELSE IF answer = "n" THEN [dir |-> Cwd, fs |-> f, raised |-> FALSE]
    ELSE IF setup = "missing" THEN [dir |-> None, fs |-> f, raised |-> TRUE]
    ELSE IF setup = "failed" THEN [dir |-> Cwd, fs |-> f, raised |-> FALSE]
    ELSE LET f2 == IF setup = "granted" THEN StorageGranted(f, h) ELSE f
             d  == FirstExisting(f2, possible_dirs(h))
         IN  [dir |-> IF d # None THEN d ELSE Cwd, fs |-> f2, raised |-> FALSE]

\* A variant that accepts only a directory that is already there.
SetDirectoryResultValidatesOnly(f, new_dir) ==
    [fs |-> f, ok |-> Exists(f, new_dir) /\ MarkerFileCheck(f, new_dir)]

\* The body of set_download_directory for the path typed: the filesystem after
\* it and whether the directory was accepted (no OSError).
SetDirectoryResult(f, new_dir) ==
    LET made == IF Exists(f, new_dir) THEN [fs |-> f, raised |-> FALSE] ELSE MakeDirs(f, new_dir)
    IN  [fs |-> made.fs, ok |-> ~made.raised /\ MarkerFileCheck(made.fs, new_dir)]

(***************************************************************************)
(* Requests: urls, media kinds, format expressions, output templates.      *)
(***************************************************************************)

VIDEO == "video"

AUDIO == "audio"

SUBTITLES == "subtitles"

YoutubeUrl == "https://youtu.be/abc"

TwitterUrl == "https://X.com/u/status/1"

UnknownUrl == "https://example-unknown.test/x"

\* The urls a user gives: the primary platform, another platform (matched only
\* after lower-casing), and one that holds none of the configured domains.
Urls == {YoutubeUrl, TwitterUrl, UnknownUrl}

\* The lines a user gives to a batch: urls, a url with surrounding blanks, and
\* blank lines.
BatchLines == Urls \cup {"", "   ", "  https://youtu.be/abc \t"}

\* The lines typed at the batch prompt of the menu.
MenuLines == {YoutubeUrl, UnknownUrl, ""}

\* str(random.randint(10000, 99999)), the two ends of the range.
RandomNumbers == {"10000", "99999"}

\* get_random_filename(extension) with the number drawn.
get_random_filename(extension, random_num) ==
    IF extension # ""
    THEN "AnmolKhadkaSocialMediaGrabber_" \o random_num \o "." \o extension
    ELSE "AnmolKhadkaSocialMediaGrabber_" \o random_num

\* out_template of download_media.
OutTemplate(dir, platform_name, random_num) ==
    IF platform_name = "youtube"
    THEN PathJoin(dir, "%(title)s.%(ext)s")
    ELSE PathJoin(dir, get_random_filename("%(ext)s", random_num))

BestAudioFormat == "bestaudio/best"

BestVideoFormat == "bestvideo[ext=mp4]+bestaudio[ext=m4a]/best[ext=mp4]/best"

HeightFormat(q) ==
    "bestvideo[height<=" \o q \o "][ext=mp4]+bestaudio[ext=m4a]/best[height<="
        \o q \o "][ext=mp4]/best"

\* A variant that takes every quality for a height ceiling.
FormatForAlwaysCeiling(kind, q) ==
    IF kind = AUDIO THEN BestAudioFormat
    ELSE IF kind = VIDEO THEN HeightFormat(q)
    ELSE None

\* ydl_opts['format'] as download_media sets it; None when the key is not set.
FormatFor(kind, q) ==
    IF kind = AUDIO THEN BestAudioFormat
    ELSE IF kind = VIDEO THEN (IF q = "best" THEN BestVideoFormat ELSE HeightFormat(q))
    ELSE None

NoOpts == [format |-> None, outtmpl |-> None, postprocessor |-> None, skip_download |-> FALSE]

\* ydl_opts of download_media.
MediaOpts(dir, platform_name, kind, q, random_num) ==
    [format        |-> FormatFor(kind, q),
     outtmpl       |-> OutTemplate(dir, platform_name, random_num),
     postprocessor |-> IF kind = AUDIO THEN "FFmpegExtractAudio:mp3" ELSE None,
     skip_download |-> FALSE]

\* ydl_opts of download_subtitles.
SubtitleOpts(dir) ==
    [format |-> None, outtmpl |-> PathJoin(dir, "%(title)s.%(ext)s"),
     postprocessor |-> None, skip_download |-> TRUE]

\* The titles and extensions the engine reports for what it fetched.
Titles == {"clip", "my.song"}

Exts == {"webm", "m4a"}

\* ydl.prepare_filename(info_dict): the template with its fields filled in.
prepare_filename(outtmpl, title, ext) ==
    Replace(Replace(outtmpl, "%(title)s", title), "%(ext)s", ext)

\* A variant that reports the engine's filename as it is.
ReportedFilenameAsPrepared(kind, prepared) == prepared

\* The filename download_media reports.
ReportedFilename(kind, prepared) ==
    IF kind = AUDIO THEN SplitExt(prepared)[1] \o ".mp3" ELSE prepared

\* The lines the batch prompt reads: blank lines are passed over until a url
\* was given, and the first blank line after that ends the input.
RECURSIVE ReadBatchLines(_, _)
ReadBatchLines(typed, acc) ==
    IF typed = <<>> THEN acc
    ELSE IF Strip(Head(typed)) = ""
         THEN (IF acc # <<>> THEN acc ELSE ReadBatchLines(Tail(typed), acc))
         ELSE ReadBatchLines(Tail(typed), Append(acc, Head(typed)))

\* The probe answers of a whole session: failures, no formats, only formats
\* without video, and a list with a repeated height.
SessionProbeAnswers ==
    ProbeAnswers({ <<>>,
                   <<CHOOSE f \in EngineFormats : f.format_id = "sb0">>,
                   << CHOOSE f \in EngineFormats : f.format_id = "22",
                      CHOOSE f \in EngineFormats : f.format_id = "137",
                      CHOOSE f \in EngineFormats : f.format_id = "136" >> })

\* sys.argv of the runs modelled: the menu, the informational options, direct
\* downloads with and without the audio and quality options, and bad arguments.
ArgvSet ==
    { <<"grabber">>, <<"grabber", "-v">>, <<"grabber", "--about">>,
      <<"grabber", "-x">>, <<"grabber", "-d">> }
    \cup { <<"grabber", "-d", u>> : u \in Urls }
    \cup { <<"grabber", "--download", u, a>> : u \in Urls, a \in {"-a", "--audio", "-q"} }
    \cup { <<"grabber", "-d", u, q, "720">> : u \in Urls, q \in {"-q", "--quality"} }

\* `x in sys.argv`
InArgv(a, x) == \E i \in 1..Len(a) : a[i] = x

\* sys.argv.index(x), 1-based.
ArgvIndex(a, x) == CHOOSE i \in 1..Len(a) : a[i] = x /\ \A j \in 1..(i - 1) : a[j] # x

(***************************************************************************)
(* Values of the state before anything was done.                           *)
(***************************************************************************)

NoProbe == [kind |-> "unasked", formats |-> <<>>]

NoResolved == [dir |-> None, candidate |-> None, verified |-> 0, passed |-> FALSE]

NoSetDir == [path |-> None, before |-> None, previous |-> None, ok |-> FALSE]

NoSummary == [printed |-> FALSE, succeeded |-> 0, total |-> 0]

(***************************************************************************)
(* The progress display and the samples the engine gives the hook.         *)
(***************************************************************************)

\* A byte count the sample does not carry: the key is missing or holds None.
NoBytes == 0 - 1

\* The published percentage when there is no display.
NoPercent == 0 - 1

\* The task ids a display hands out.  rich numbers the tasks of a Progress
\* from 0, so the one task download_media adds to its new display is
\* TaskID(0); TaskID(1) stands for any later id.
TaskIds == {"TaskID(0)", "TaskID(1)"}

\* bool(handle): None is false, and so is TaskID(0), an int that equals 0.
Truth(handle) == handle # None /\ handle # "TaskID(0)"

Statuses == {"downloading", "finished", "error"}

ByteCounts == {NoBytes} \cup (0..MaxBytes)

\* The dictionaries the engine passes to a progress hook.
Samples ==
    [status : Statuses, downloaded_bytes : 0..MaxBytes,
     total_bytes : ByteCounts, total_bytes_estimate : ByteCounts]

\* The samples of a session: an exact total, an estimate that the download
\* overshoots, no total at all, and the closing sample.
SessionSamples ==
    { [status |-> "downloading", downloaded_bytes |-> 1,
       total_bytes |-> 2, total_bytes_estimate |-> NoBytes],
      [status |-> "downloading", downloaded_bytes |-> 3,
       total_bytes |-> NoBytes, total_bytes_estimate |-> 2],
      [status |-> "downloading", downloaded_bytes |-> 1,
       total_bytes |-> NoBytes, total_bytes_estimate |-> NoBytes],
      [status |-> "finished", downloaded_bytes |-> 2,
       total_bytes |-> 2, total_bytes_estimate |-> NoBytes] }

NoSample ==
    [status |-> None, downloaded_bytes |-> NoBytes,
     total_bytes |-> NoBytes, total_bytes_estimate |-> NoBytes]

NoHook == [d |-> NoSample, before |-> NoPercent, updated |-> FALSE]

\* d.get('total_bytes') or d.get('total_bytes_estimate'): the estimate is
\* taken when the exact total is None or 0.
TotalBytes(d) ==
    IF d.total_bytes # NoBytes /\ d.total_bytes # 0
    THEN d.total_bytes ELSE d.total_bytes_estimate

\* A variant without the cap at 100.
PercentUncapped(downloaded, total_bytes) == (downloaded * 100) \div total_bytes

\* min(100, downloaded / total_bytes * 100), to its integer part.
Percent(downloaded, total_bytes) ==
    IF (downloaded * 100) \div total_bytes > 100 THEN 100
    ELSE (downloaded * 100) \div total_bytes

\* The conditions under which ytdl_progress_hook reaches progress.update.
HookUpdates(p, t, d) ==
    /\ Truth(p) /\ Truth(t)
    /\ d.status = "downloading"
    /\ TotalBytes(d) # NoBytes /\ TotalBytes(d) # 0

\* What a handler finds when the menu starts it: nothing of the one before.
FreshDownload ==
    /\ ydl_opts' = NoOpts /\ progress' = None /\ task' = None
    /\ completed' = NoPercent /\ hooked' = NoHook
    /\ result' = None /\ filename' = None

FreshMenu == probe' = NoProbe /\ qualities' = <<>> /\ shown' = <<>> /\ choice' = 0

FreshBatch ==
    /\ idx' = 0 /\ success_count' = 0 /\ total' = 0
    /\ attempted' = <<>> /\ outcomes' = <<>> /\ summary' = NoSummary

(***************************************************************************)
(* Construction and the entry paths.                                       *)
(***************************************************************************)

\* SocialMediaGrabber.__init__: get_default_download_dir, then
\* check_termux_storage with the user's answer and what the setup command did.
Construct ==
    /\ pc = "start"
    /\ \E answer \in {"y", "n"}, setup \in SetupOutcomes :
        LET d == get_default_download_dir(host, fs)
            t == check_termux_storage(host, d.fs, answer, setup)
        IN  /\ resolved' = [dir |-> d.dir, candidate |-> d.candidate,
                            verified |-> d.verified, passed |-> d.passed]
            /\ fs' = t.fs
            /\ download_dir' = IF t.dir # None THEN t.dir ELSE d.dir
            /\ dir_checked' = IF t.dir # None THEN FALSE ELSE d.passed
            /\ IF t.raised
               THEN pc' = "exit" /\ exit_code' = "1"
               ELSE pc' = "run" /\ exit_code' = exit_code
    /\ UNCHANGED <<host, setdir, entry, argv, dlVars, menuVars, engine_log, batchVars>>

\* run(): the command line if arguments were given, else the menu.
run ==
    /\ pc = "run"
    /\ pc' = IF Len(argv) > 1 THEN "handle_cli_args" ELSE "menu"
    /\ UNCHANGED <<dirVars, entry, argv, exit_code, dlVars, menuVars, engine_log, batchVars>>

\* The download type and quality handle_cli_args takes from the arguments.
CliDownloadType(a) ==
    IF InArgv(a, "-a") \/ InArgv(a, "--audio") THEN AUDIO ELSE VIDEO

CliQuality(a) ==
    IF InArgv(a, "-a") \/ InArgv(a, "--audio") THEN "best"
    ELSE IF InArgv(a, "-q") \/ InArgv(a, "--quality")
    THEN LET quality_idx == IF InArgv(a, "-q") THEN ArgvIndex(a, "-q") ELSE ArgvIndex(a, "--quality")
         IN  IF quality_idx + 1 <= Len(a) THEN a[quality_idx + 1] ELSE "best"
    ELSE "best"

\* handle_cli_args()
handle_cli_args ==
    /\ pc = "handle_cli_args"
    /\ entry' = "cli"
    /\ IF InArgv(argv, "--version") \/ InArgv(argv, "-v")
       THEN /\ pc' = "exit" /\ exit_code' = "0"
            /\ UNCHANGED <<url, download_type, quality>>
       ELSE IF InArgv(argv, "--about") \/ InArgv(argv, "-a")
       THEN /\ pc' = "exit" /\ exit_code' = "0"
            /\ UNCHANGED <<url, download_type, quality>>
       ELSE IF Len(argv) >= 3 /\ argv[2] \in {"-d", "--download"}
       THEN /\ url' = argv[3]
            /\ download_type' = CliDownloadType(argv)
            /\ quality' = CliQuality(argv)
            /\ pc' = "download_media" /\ exit_code' = exit_code
       ELSE /\ pc' = "exit" /\ exit_code' = "1"
            /\ UNCHANGED <<url, download_type, quality>>
    /\ UNCHANGED <<dirVars, argv, ydl_opts, progress, task, trackVars, result, filename,
                   menuVars, engine_log, batchVars>>

(***************************************************************************)
(* process_menu_choice: one action per choice.                             *)
(***************************************************************************)

\* Choice 1: the url is asked, then show_quality_menu(url) is called.
MenuVideo ==
    /\ pc = "menu"
    /\ \E u \in Urls : url' = u
    /\ entry' = "video" /\ download_type' = VIDEO /\ quality' = None
    /\ pc' = "show_quality_menu"
    /\ FreshDownload /\ FreshMenu /\ FreshBatch /\ urls' = <<>>
    /\ engine_log' = <<>> /\ setdir' = NoSetDir
    /\ UNCHANGED <<host, fs, download_dir, dir_checked, resolved, argv, exit_code>>

\* Choice 2: download_media(url, DownloadType.AUDIO).
MenuAudio ==
    /\ pc = "menu"
    /\ \E u \in Urls : url' = u
    /\ entry' = "audio" /\ download_type' = AUDIO /\ quality' = "best"
    /\ pc' = "download_media"
    /\ FreshDownload /\ FreshMenu /\ FreshBatch /\ urls' = <<>>
    /\ engine_log' = <<>> /\ setdir' = NoSetDir
    /\ UNCHANGED <<host, fs, download_dir, dir_checked, resolved, argv, exit_code>>

\* Choice 3: the lines are read, the kind is asked, and for videos the quality
\* menu is shown for the first url before batch_download is called.
MenuBatch ==
    /\ pc = "menu"
    /\ \E typed \in SeqsUpTo(MenuLines, MaxTyped), kind \in {"1", "2"} :
        LET read == ReadBatchLines(typed \o <<"">>, <<>>)
        IN  /\ read # <<>>
            /\ urls' = read
            /\ IF kind = "1"
               THEN /\ download_type' = VIDEO /\ quality' = None
                    /\ url' = read[1] /\ pc' = "show_quality_menu"
               ELSE /\ download_type' = AUDIO /\ quality' = "best"
                    /\ url' = None /\ pc' = "batch_download"
    /\ entry' = "batch"
    /\ FreshDownload /\ FreshMenu /\ FreshBatch
    /\ engine_log' = <<>> /\ setdir' = NoSetDir
    /\ UNCHANGED <<host, fs, download_dir, dir_checked, resolved, argv, exit_code>>

\* Choice 4: download_subtitles(url).
MenuSubtitles ==
    /\ pc = "menu"
    /\ \E u \in Urls : url' = u
    /\ entry' = "subtitles" /\ download_type' = SUBTITLES /\ quality' = None
    /\ pc' = "download_subtitles"
    /\ FreshDownload /\ FreshMenu /\ FreshBatch /\ urls' = <<>>
    /\ engine_log' = <<>> /\ setdir' = NoSetDir
    /\ UNCHANGED <<host, fs, download_dir, dir_checked, resolved, argv, exit_code>>

\* Choice 5: set_download_directory() with the path typed at its prompt.
set_download_directory ==
    /\ pc = "menu"
    /\ \E new_dir \in Paths :
        LET r == SetDirectoryResult(fs, new_dir)
        IN  /\ fs' = r.fs
            /\ download_dir' = IF r.ok THEN new_dir ELSE download_dir
            /\ dir_checked' = IF r.ok THEN TRUE ELSE dir_checked
            /\ setdir' = [path |-> new_dir, before |-> fs[new_dir],
                          previous |-> download_dir, ok |-> r.ok]
    /\ entry' = "set_directory"
    /\ url' = None /\ download_type' = None /\ quality' = None
    /\ FreshDownload /\ FreshMenu /\ FreshBatch /\ urls' = <<>>
    /\ engine_log' = <<>>
    /\ UNCHANGED <<host, resolved, pc, argv, exit_code>>

\* Choice 6: show_about() prints and changes nothing of the grabber.
show_about ==
    /\ pc = "menu"
    /\ entry' = "about"
    /\ url' = None /\ download_type' = None /\ quality' = None
    /\ FreshDownload /\ FreshMenu /\ FreshBatch /\ urls' = <<>>
    /\ engine_log' = <<>> /\ setdir' = NoSetDir
    /\ UNCHANGED <<host, fs, download_dir, dir_checked, resolved, pc, argv, exit_code>>

\* Choice 7: sys.exit(0).
MenuExit ==
    /\ pc = "menu"
    /\ pc' = "exit" /\ exit_code' = "0"
    /\ UNCHANGED <<dirVars, entry, argv, dlVars, menuVars, engine_log, batchVars>>

(***************************************************************************)
(* show_quality_menu: the probe, then the prompt.                          *)
(***************************************************************************)

\* show_quality_menu returns q: control goes on in the caller.
QualityReturned(q) ==
    /\ quality' = q
    /\ pc' = CASE entry = "video" -> "download_media"
               [] entry = "batch" -> "batch_download"
               [] OTHER -> "returned"

\* show_quality_menu(url) up to its prompt: the engine is asked for the
\* formats (one of `answers`); with no option 'best' is returned at once,
\* else the table is printed.
show_quality_menu(answers) ==
    /\ pc = "show_quality_menu"
    /\ \E a \in answers :
        LET qs == get_available_qualities(a)
        IN  /\ probe' = a
            /\ qualities' = qs
            /\ choice' = 0
            /\ IF qs = <<>>
               THEN shown' = <<>> /\ QualityReturned("best")
               ELSE shown' = QualityTable(qs) /\ pc' = "select_quality" /\ quality' = quality
    /\ engine_log' = Append(engine_log, [op |-> "probe", url |-> url])
    /\ UNCHANGED <<dirVars, entry, argv, exit_code, url, download_type, ydl_opts,
                   progress, task, trackVars, result, filename, batchVars>>

\* The prompt of show_quality_menu: Prompt.ask accepts one of its choices.
SelectQuality ==
    /\ pc = "select_quality"
    /\ \E c \in QualityChoices(qualities), manual_id \in ManualIds :
        /\ choice' = c
        /\ QualityReturned(QualityChosen(qualities, c, manual_id))
    /\ UNCHANGED <<dirVars, entry, argv, exit_code, url, download_type, ydl_opts,
                   progress, task, trackVars, result, filename, probe, qualities, shown,
                   engine_log, batchVars>>

(***************************************************************************)
(* download_media.                                                         *)
(***************************************************************************)

\* A variant in which a failed item ends the batch loop.
ReturnFromDownloadAbortsOnFailure(r) ==
    /\ result' = r
    /\ IF entry \in {"batch", "batch_download"}
       THEN /\ success_count' = IF r = "True" THEN success_count + 1 ELSE success_count
            /\ outcomes' = Append(outcomes, r)
            /\ idx' = IF r = "True" THEN idx + 1 ELSE Len(urls) + 1
            /\ pc' = "batch_loop"
            /\ exit_code' = exit_code
       ELSE /\ UNCHANGED <<success_count, outcomes, idx>>
            /\ IF entry = "cli"
               THEN pc' = "exit" /\ exit_code' = "0"
               ELSE pc' = (IF entry \in {"video", "audio"} THEN "menu" ELSE "returned")
                    /\ exit_code' = exit_code
    /\ UNCHANGED <<urls, total, attempted, summary>>

\* download_media returns r ("True" or "False") to its caller: the batch loop
\* counts it and goes on, the command line exits, the menu asks again.
ReturnFromDownload(r) ==
    /\ result' = r
    /\ IF entry \in {"batch", "batch_download"}
       THEN /\ success_count' = IF r = "True" THEN success_count + 1 ELSE success_count
            /\ outcomes' = Append(outcomes, r)
            /\ idx' = idx + 1
            /\ pc' = "batch_loop"
            /\ exit_code' = exit_code
       ELSE /\ UNCHANGED <<success_count, outcomes, idx>>
            /\ IF entry = "cli"
               THEN pc' = "exit" /\ exit_code' = "0"
               ELSE pc' = (IF entry \in {"video", "audio"} THEN "menu" ELSE "returned")
                    /\ exit_code' = exit_code
    /\ UNCHANGED <<urls, total, attempted, summary>>

\* download_media(url, download_type, quality) up to the engine's call: an
\* unsupported url returns False; else the options are built, the progress
\* display is set up and ydl.extract_info(url, download=True) is entered.
download_media ==
    /\ pc = "download_media"
    /\ LET platform_name == detect_platform(url)
       IN  IF platform_name = None
           THEN /\ ReturnFromDownload("False")
                /\ filename' = None
                /\ UNCHANGED <<ydl_opts, progress, task, trackVars, engine_log>>
           ELSE /\ \E random_num \in RandomNumbers :
                    ydl_opts' = MediaOpts(download_dir, platform_name, download_type,
                                          quality, random_num)
                /\ progress' = "Progress"
                /\ task' = "TaskID(0)"
                /\ completed' = 0 /\ hooked' = NoHook
                /\ engine_log' = Append(engine_log, [op |-> "fetch", url |-> url])
                /\ pc' = "engaged"
                /\ filename' = None
                /\ UNCHANGED <<result, exit_code, batchVars>>
    /\ UNCHANGED <<dirVars, entry, argv, url, download_type, quality, menuVars>>

\* The engine fetched the media: the filename is reported, the finally block
\* clears the progress state, True is returned.
EngineReturns ==
    /\ pc = "engaged"
    /\ \E title \in Titles, ext \in Exts :
        filename' = ReportedFilename(download_type,
                                     prepare_filename(ydl_opts.outtmpl, title, ext))
    /\ progress' = None /\ task' = None
    /\ completed' = NoPercent /\ hooked' = NoHook
    /\ ReturnFromDownload("True")
    /\ UNCHANGED <<dirVars, entry, argv, url, download_type, quality, ydl_opts,
                   menuVars, engine_log>>

\* A variant without the finally block: a raise leaves the display in place.
EngineRaisesKeepsDisplay ==
    /\ pc = "engaged"
    /\ ReturnFromDownload("False")
    /\ UNCHANGED <<dirVars, entry, argv, url, download_type, quality, ydl_opts,
                   progress, task, trackVars, filename, menuVars, engine_log>>

\* The engine raised: the except block reports it, the finally block clears
\* the progress state, False is returned.
EngineRaises ==
    /\ pc = "engaged"
    /\ progress' = None /\ task' = None
    /\ completed' = NoPercent /\ hooked' = NoHook
    /\ ReturnFromDownload("False")
    /\ UNCHANGED <<dirVars, entry, argv, url, download_type, quality, ydl_opts,
                   filename, menuVars, engine_log>>

\* ytdl_progress_hook(d): the engine gives the hook one sample (one of
\* `samples`) while it fetches.
ytdl_progress_hook(samples) ==
    /\ pc = "engaged"
    /\ \E d \in samples :
        LET updates == HookUpdates(progress, task, d)
        IN  /\ completed' = IF updates THEN Percent(d.downloaded_bytes, TotalBytes(d))
                                       ELSE completed
            /\ hooked' = [d |-> d, before |-> completed, updated |-> updates]
    /\ UNCHANGED <<dirVars, pc, entry, argv, exit_code, url, download_type, quality,
                   ydl_opts, progress, task, result, filename, menuVars, engine_log,
                   batchVars>>

(***************************************************************************)
(* batch_download.                                                         *)
(***************************************************************************)

\* batch_download(urls, download_type, quality) up to its loop.
batch_download ==
    /\ pc = "batch_download"
    /\ success_count' = 0
    /\ total' = Len(urls)
    /\ idx' = 1
    /\ pc' = "batch_loop"
    /\ UNCHANGED <<dirVars, entry, argv, exit_code, dlVars, menuVars, engine_log,
                   urls, attempted, outcomes, summary>>

\* The loop meets a url that is blank once stripped: continue.
BatchSkipBlank ==
    /\ pc = "batch_loop"
    /\ idx <= Len(urls)
    /\ Strip(urls[idx]) = ""
    /\ idx' = idx + 1
    /\ UNCHANGED <<dirVars, pc, entry, argv, exit_code, dlVars, menuVars, engine_log,
                   urls, success_count, total, attempted, outcomes, summary>>

\* The loop calls download_media(url, download_type, quality) on the stripped url.
BatchAttempt ==
    /\ pc = "batch_loop"
    /\ idx <= Len(urls)
    /\ Strip(urls[idx]) # ""
    /\ url' = Strip(urls[idx])
    /\ attempted' = Append(attempted, Strip(urls[idx]))
    /\ pc' = "download_media"
    /\ UNCHANGED <<dirVars, entry, argv, exit_code, download_type, quality, ydl_opts,
                   progress, task, trackVars, result, filename, menuVars, engine_log,
                   urls, idx, success_count, total, outcomes, summary>>

\* The loop is over: the summary line is printed and batch_download returns.
BatchSummary ==
    /\ pc = "batch_loop"
    /\ idx > Len(urls)
    /\ summary' = [printed |-> TRUE, succeeded |-> success_count, total |-> total]
    /\ pc' = IF entry = "batch" THEN "menu" ELSE "returned"
    /\ UNCHANGED <<dirVars, entry, argv, exit_code, dlVars, menuVars, engine_log,
                   urls, idx, success_count, total, attempted, outcomes>>

(***************************************************************************)
(* download_subtitles.                                                     *)
(***************************************************************************)

\* download_subtitles(url) up to the engine's call.  `'youtube' not in
\* self.detect_platform(url)` raises TypeError when detect_platform returned
\* None; the exception leaves download_subtitles and is caught by the menu loop.
download_subtitles ==
    /\ pc = "download_subtitles"
    /\ LET platform_name == detect_platform(url)
       IN  IF platform_name = None
           THEN /\ result' = "raised" /\ pc' = "menu"
                /\ UNCHANGED <<ydl_opts, engine_log>>
           ELSE IF ~IsIn("youtube", platform_name)
           THEN /\ result' = "False" /\ pc' = "menu"
                /\ UNCHANGED <<ydl_opts, engine_log>>
           ELSE /\ ydl_opts' = SubtitleOpts(download_dir)
                /\ engine_log' = Append(engine_log, [op |-> "fetch", url |-> url])
                /\ pc' = "fetching_subtitles"
                /\ result' = result
    /\ UNCHANGED <<dirVars, entry, argv, exit_code, url, download_type, quality,
                   progress, task, trackVars, filename, menuVars, batchVars>>

\* ydl.download([url]) returned: True.
SubtitlesReturn ==
    /\ pc = "fetching_subtitles"
    /\ result' = "True" /\ pc' = "menu"
    /\ UNCHANGED <<dirVars, entry, argv, exit_code, url, download_type, quality,
                   ydl_opts, progress, task, trackVars, filename, menuVars, engine_log, batchVars>>

\* ydl.download([url]) raised: False.
SubtitlesRaise ==
    /\ pc = "fetching_subtitles"
    /\ result' = "False" /\ pc' = "menu"
    /\ UNCHANGED <<dirVars, entry, argv, exit_code, url, download_type, quality,
                   ydl_opts, progress, task, trackVars, filename, menuVars, engine_log, batchVars>>

(***************************************************************************)
(* Specifications.                                                         *)
(***************************************************************************)

\* Nothing was asked of the grabber yet.
Untouched ==
    /\ setdir = NoSetDir
    /\ entry = "none" /\ exit_code = None
    /\ url = None /\ download_type = None /\ quality = None
    /\ ydl_opts = NoOpts /\ progress = None /\ task = None
    /\ completed = NoPercent /\ hooked = NoHook
    /\ result = None /\ filename = None
    /\ probe = NoProbe /\ qualities = <<>> /\ shown = <<>> /\ choice = 0
    /\ engine_log = <<>>
    /\ urls = <<>> /\ idx = 0 /\ success_count = 0 /\ total = 0
    /\ attempted = <<>> /\ outcomes = <<>> /\ summary = NoSummary

\* A desktop Linux host whose Downloads folder and working directory are
\* writable, and the grabber constructed on it.
DesktopFs ==
    [p \in Paths |->
        IF p \in {Cwd, HomeDownloads(DesktopHost)} THEN "writable"
        ELSE IF p = CustomDir THEN "absent" ELSE "blocked"]

ConstructedOnDesktop ==
    LET d == get_default_download_dir(DesktopHost, DesktopFs)
    IN  /\ host = DesktopHost
        /\ fs = d.fs
        /\ download_dir = d.dir
        /\ dir_checked = d.passed
        /\ resolved = [dir |-> d.dir, candidate |-> d.candidate,
                       verified |-> d.verified, passed |-> d.passed]

\* A session: the grabber was constructed and run() is called with some argv.
\* The lines the menu reads for a batch are never blank, so the loop of
\* batch_download never skips one here (BatchSkipBlank is in SpecBatch).
Init ==
    /\ ConstructedOnDesktop
    /\ pc = "run"
    /\ argv \in ArgvSet
    /\ Untouched

Next ==
    \/ run
    \/ handle_cli_args
    \/ MenuVideo
    \/ MenuAudio
    \/ MenuBatch
    \/ MenuSubtitles
    \/ set_download_directory
    \/ show_about
    \/ MenuExit
    \/ show_quality_menu(SessionProbeAnswers)
    \/ SelectQuality
    \/ download_media
    \/ EngineReturns
    \/ EngineRaises
    \/ ytdl_progress_hook(SessionSamples)
    \/ batch_download
    \/ BatchAttempt
    \/ BatchSummary
    \/ download_subtitles
    \/ SubtitlesReturn
    \/ SubtitlesRaise

Spec == Init /\ [][Next]_vars

\* The directory of a grabber on any host: construction, then the menu's
\* directory, audio and subtitle choices.
InitDir ==
    /\ host \in Hosts
    /\ fs \in FileSystems(host)
    /\ download_dir = None /\ dir_checked = FALSE /\ resolved = NoResolved
    /\ pc = "start"
    /\ argv = <<"grabber">>
    /\ Untouched

NextDir ==
    \/ Construct
    \/ run
    \/ set_download_directory
    \/ MenuAudio
    \/ MenuSubtitles
    \/ download_media
    \/ EngineReturns
    \/ EngineRaises
    \/ download_subtitles
    \/ SubtitlesReturn
    \/ SubtitlesRaise

SpecDir == InitDir /\ [][NextDir]_vars

\* batch_download called with any list of at most MaxBatch lines, either kind
\* and any quality argument.
InitBatch ==
    /\ ConstructedOnDesktop
    /\ pc = "batch_download"
    /\ argv = <<"grabber">>
    /\ setdir = NoSetDir /\ exit_code = None
    /\ entry = "batch_download"
    /\ urls \in SeqsUpTo(BatchLines, MaxBatch)
    /\ download_type \in {VIDEO, AUDIO}
    /\ quality \in {"best", "22"}
    /\ url = None
    /\ ydl_opts = NoOpts /\ progress = None /\ task = None
    /\ completed = NoPercent /\ hooked = NoHook
    /\ result = None /\ filename = None
    /\ probe = NoProbe /\ qualities = <<>> /\ shown = <<>> /\ choice = 0
    /\ engine_log = <<>>
    /\ idx = 0 /\ success_count = 0 /\ total = 0
    /\ attempted = <<>> /\ outcomes = <<>> /\ summary = NoSummary

NextBatch ==
    \/ batch_download
    \/ BatchSkipBlank
    \/ BatchAttempt
    \/ BatchSummary
    \/ download_media
    \/ EngineReturns
    \/ EngineRaises

SpecBatch == InitBatch /\ [][NextBatch]_vars

\* show_quality_menu called for a url, the engine answering the probe with
\* any list of at most MaxFormats formats.
InitProbe ==
    /\ ConstructedOnDesktop
    /\ pc = "show_quality_menu"
    /\ argv = <<"grabber">>
    /\ setdir = NoSetDir /\ exit_code = None
    /\ entry = "show_quality_menu"
    /\ url = YoutubeUrl
    /\ download_type = None /\ quality = None
    /\ ydl_opts = NoOpts /\ progress = None /\ task = None
    /\ completed = NoPercent /\ hooked = NoHook
    /\ result = None /\ filename = None
    /\ probe = NoProbe /\ qualities = <<>> /\ shown = <<>> /\ choice = 0
    /\ engine_log = <<>>
    /\ urls = <<>> /\ idx = 0 /\ success_count = 0 /\ total = 0
    /\ attempted = <<>> /\ outcomes = <<>> /\ summary = NoSummary

NextProbe ==
    \/ show_quality_menu(AllProbeAnswers)
    \/ SelectQuality

SpecProbe == InitProbe /\ [][NextProbe]_vars

\* ytdl_progress_hook called, during a fetch, with any sample of at most
\* MaxBytes bytes, whatever task id the display gave.
InitHook ==
    /\ ConstructedOnDesktop
    /\ pc = "engaged"
    /\ argv = <<"grabber">>
    /\ setdir = NoSetDir /\ exit_code = None
    /\ entry = "ytdl_progress_hook"
    /\ url = YoutubeUrl
    /\ download_type = VIDEO /\ quality = "best"
    /\ \E random_num \in RandomNumbers :
        ydl_opts = MediaOpts(download_dir, detect_platform(YoutubeUrl), VIDEO, "best",
                             random_num)
    /\ progress = "Progress" /\ task \in TaskIds
    /\ completed = 0 /\ hooked = NoHook
    /\ result = None /\ filename = None
    /\ probe = NoProbe /\ qualities = <<>> /\ shown = <<>> /\ choice = 0
    /\ engine_log = <<[op |-> "fetch", url |-> YoutubeUrl]>>
    /\ urls = <<>> /\ idx = 0 /\ success_count = 0 /\ total = 0
    /\ attempted = <<>> /\ outcomes = <<>> /\ summary = NoSummary

NextHook == ytdl_progress_hook(Samples)

SpecHook == InitHook /\ [][NextHook]_vars

(***************************************************************************)
(* Properties of batch_download (checked under SpecBatch).                 *)
(***************************************************************************)

\* The entries of a list that are not blank once stripped, stripped, in order.
RECURSIVE NonBlank(_)
NonBlank(lines) ==
    IF lines = <<>> THEN <<>>
    ELSE IF Strip(Head(lines)) = "" THEN NonBlank(Tail(lines))
         ELSE <<Strip(Head(lines))>> \o NonBlank(Tail(lines))

\* The number of "True" in a list of outcomes.
Successes(outs) == Cardinality({ i \in 1..Len(outs) : outs[i] = "True" })

\* C1: the total reported in the batch summary is the number of entries that
\* are not blank after stripping; blank entries do not count toward it.
C1_TotalCountsNonBlank ==
    summary.printed => summary.total = Len(NonBlank(urls))

\* C6: batch_download passes every non-blank url to download_media exactly
\* once, in input order and one at a time; a failed item neither ends the loop
\* nor raises; the success count reported is the number of attempts that
\* returned True, so it never exceeds the number of attempts.
C6_BatchSequential ==
    /\ result # "raised"
    /\ Len(attempted) <= Len(NonBlank(urls))
    /\ attempted = SubSeq(NonBlank(urls), 1, Len(attempted))
    /\ Len(outcomes) = (IF pc \in {"download_media", "engaged"}
                        THEN Len(attempted) - 1 ELSE Len(attempted))
    /\ pc = "returned" => summary.printed
    /\ summary.printed =>
        /\ attempted = NonBlank(urls)
        /\ summary.succeeded = Successes(outcomes)
        /\ summary.succeeded <= Len(attempted)

\* A batch with a blank line in which a failure was followed by a success.
C6_Witness ==
    /\ summary.printed
    /\ Len(urls) = 3
    /\ Len(attempted) = 2
    /\ outcomes = <<"False", "True">>
    /\ summary.succeeded = 1

(***************************************************************************)
(* Properties of download_media (checked under SpecBatch, where every      *)
(* quality argument occurs with every kind).                               *)
(***************************************************************************)

\* C7: for Audio the format expression given to the engine is the
\* best-available-audio one whatever the quality argument, and the filename
\* reported on success ends in .mp3 whatever extension the engine's had.
C7_AudioBestAndMp3 ==
    download_type = AUDIO =>
        /\ ydl_opts # NoOpts => ydl_opts.format = BestAudioFormat
        /\ filename # None => EndsWith(filename, ".mp3")

\* An Audio download with a quality argument other than 'best' succeeded for a
\* title that holds a dot.
C7_Witness ==
    /\ download_type = AUDIO
    /\ quality = "22"
    /\ result = "True"
    /\ ydl_opts.format = BestAudioFormat
    /\ filename = PathJoin(download_dir, "my.song.mp3")

(***************************************************************************)
(* Properties of a session (checked under Spec).                           *)
(***************************************************************************)

\* A handler that was given a url has ended.
RequestEnded ==
    /\ url # None
    /\ entry \in {"video", "audio", "subtitles", "cli"}
    /\ pc \in {"menu", "exit"}

\* C2: a request for a url that holds none of the configured domains, of any
\* media kind and on any entry path, ends in a returned failure (no exception)
\* and the engine is contacted for it neither to probe nor to fetch.
C2_UnsupportedNeverReachesEngine ==
    /\ \A i \in 1..Len(engine_log) : detect_platform(engine_log[i].url) # None
    /\ (RequestEnded /\ detect_platform(url) = None) => result = "False"

\* The probe of the last quality negotiation yielded no option.
ProbeYieldedNothing == probe.kind # "unasked" /\ qualities = <<>>

\* C10: when the probe fails (the engine raises or returns no metadata) or
\* yields no option, show_quality_menu returns 'best' without prompting and
\* without raising, and the download goes on to the engine with the
\* best-quality format expression.
C10_ProbeFailureDegradesToBest ==
    ProbeYieldedNothing =>
        /\ shown = <<>> /\ choice = 0 /\ pc # "select_quality"
        /\ quality = "best"
        /\ result # "raised"
        /\ pc = "engaged" => ydl_opts.format = BestVideoFormat
        /\ (entry = "video" /\ pc = "menu" /\ detect_platform(url) # None) =>
                /\ engine_log = <<[op |-> "probe", url |-> url], [op |-> "fetch", url |-> url]>>
                /\ ydl_opts.format = BestVideoFormat

\* The probe raised and the engine is fetching with the best-quality expression.
C10_Witness ==
    /\ probe.kind = "raise"
    /\ entry = "video"
    /\ pc = "engaged"
    /\ quality = "best"
    /\ ydl_opts.format = BestVideoFormat

\* The command line asks for a download of a url with the audio option.
CliAudioDownload ==
    /\ Len(argv) >= 4
    /\ argv[2] \in {"-d", "--download"}
    /\ InArgv(argv, "-a") \/ InArgv(argv, "--audio")

\* C13: a command line that asks for a download of a url with the audio
\* option, written -a or --audio, ends after an Audio download of that url was
\* performed: the audio option never makes the program skip the download.
C13_CliAudioOptionDownloadsAudio ==
    (entry = "cli" /\ pc = "exit" /\ CliAudioDownload) =>
        /\ url = argv[3]
        /\ download_type = AUDIO
        /\ result # None

\* The decimal text of a natural number, as an f-string writes it.
Digits == "0123456789"

RECURSIVE DecimalText(_)
DecimalText(n) ==
    IF n < 10 THEN SubSeq(Digits, n + 1, n + 1)
    ELSE DecimalText(n \div 10) \o SubSeq(Digits, (n % 10) + 1, (n % 10) + 1)

\* The user selected a height row of the quality table.
HeightOptionSelected == choice >= 2 /\ choice <= Len(qualities) + 1

\* C14: when a Video download is started with the quality show_quality_menu
\* returned for a selected height row, the format expression given to the
\* engine has that row's height as its height ceiling.
C14_CeilingIsSelectedHeight ==
    (entry = "video" /\ HeightOptionSelected /\ ydl_opts # NoOpts) =>
        ydl_opts.format = HeightFormat(DecimalText(qualities[choice - 1].height))

(***************************************************************************)
(* Properties of the download directory (checked under SpecDir).           *)
(***************************************************************************)

\* The engine's fetch is in progress.
Fetching == pc \in {"engaged", "fetching_subtitles"}

\* C3: whenever the engine's fetch is invoked, the current download directory
\* exists and has passed the marker-file check since it was last assigned.
C3_FetchOnlyIntoVerifiedDirectory ==
    Fetching => dir_checked /\ Exists(fs, download_dir)

\* C4: get_default_download_dir runs the marker-file verification exactly once
\* on every resolution path and returns the candidate only if it passed; a
\* candidate that did not pass is replaced by the current working directory.
C4_ResolutionVerifiesOnce ==
    resolved.dir # None =>
        /\ resolved.verified = 1
        /\ resolved.dir = (IF resolved.passed THEN resolved.candidate ELSE Cwd)

\* set_download_directory ran on a path that was not there.
SetDirOnMissingPath == setdir.path # None /\ setdir.before \in {"absent", "blocked"}

\* C5 as stated: for a path that does not exist set_download_directory creates
\* nothing, reports an error and keeps the previous download directory.
C5_MissingPathRejected ==
    SetDirOnMissingPath =>
        /\ ~setdir.ok
        /\ fs[setdir.path] = setdir.before
        /\ download_dir = setdir.previous

\* C5 as amended: for a path that does not exist set_download_directory
\* creates the directory; the path becomes the download directory when the
\* creation and the marker-file check succeed, else an error is reported and
\* the download directory keeps its previous value.
C5_MissingPathCreated ==
    SetDirOnMissingPath =>
        /\ setdir.before = "absent" => Exists(fs, setdir.path)
        /\ setdir.ok => download_dir = setdir.path /\ MarkerFileCheck(fs, setdir.path)
        /\ ~setdir.ok => download_dir = setdir.previous /\ fs[setdir.path] = setdir.before

\* A directory that was not there was created and became the download directory.
C5_Witness ==
    /\ setdir.path = CustomDir
    /\ setdir.before = "absent"
    /\ setdir.ok
    /\ setdir.previous # CustomDir
    /\ download_dir = CustomDir
    /\ fs[CustomDir] = "writable"

(***************************************************************************)
(* Properties of the quality probe and menu (checked under SpecProbe).     *)
(***************************************************************************)

\* The options the printed table holds.
ShownOptions == { shown[i].option : i \in 1..Len(shown) }

\* C8: the menu offers at most 4 heights, 'best' and the manual entry, and
\* every choice it accepts is one of the options it presented.
C8_OnlyPresentedOptionsSelectable ==
    /\ Cardinality({ i \in 1..Len(shown) : shown[i].row = "height" }) <= 4
    /\ choice # 0 => choice \in ShownOptions

\* The first format of the probe's list that has a video stream, a known
\* height, and the height h.
FirstWithHeight(fmts, h) ==
    fmts[CHOOSE k \in 1..Len(fmts) :
            /\ fmts[k].vcodec # "none" /\ fmts[k].height = h
            /\ \A j \in 1..(k - 1) : ~(fmts[j].vcodec # "none" /\ fmts[j].height = h)]

\* C9: the options made of any probed list are strictly descending by height
\* (so no height occurs twice), each comes from a format with a video stream
\* and a known height, and each height keeps the first such format.
C9_QualitiesDescendingUnique ==
    probe.kind = "info" =>
        /\ \A i \in 1..Len(qualities), j \in 1..Len(qualities) :
                i < j => qualities[i].height > qualities[j].height
        /\ \A i \in 1..Len(qualities) :
                /\ qualities[i].height # NoHeight
                /\ \E k \in 1..Len(probe.formats) :
                        /\ probe.formats[k].vcodec # "none"
                        /\ probe.formats[k].height = qualities[i].height
                /\ qualities[i].format_id
                        = FirstWithHeight(probe.formats, qualities[i].height).format_id
        /\ \A k \in 1..Len(probe.formats) :
                (probe.formats[k].vcodec # "none" /\ probe.formats[k].height # NoHeight)
                    => \E i \in 1..Len(qualities) :
                            qualities[i].height = probe.formats[k].height

\* A probed list out of order, with a repeated height, a format without video
\* and one without height: three options are made of it.
C9_Witness ==
    /\ probe.kind = "info"
    /\ Len(probe.formats) = 5
    /\ probe.formats[1].format_id = "22"
    /\ probe.formats[2].format_id = "sb0"
    /\ probe.formats[3].format_id = "137"
    /\ probe.formats[4].format_id = "136"
    /\ probe.formats[5].format_id = "hls"
    /\ Len(qualities) = 2
    /\ qualities[1].format_id = "137"
    /\ qualities[2].format_id = "22"

(***************************************************************************)
(* Properties of the progress hook (checked under SpecHook).               *)
(***************************************************************************)

\* The sample carries a total, exact or estimated.
TotalKnown(d) == d.total_bytes # NoBytes \/ d.total_bytes_estimate # NoBytes

\* C11: the hook publishes a percentage only for a sample whose downloaded
\* count and total (exact or estimated) are known, every published percentage
\* is between 0 and 100 even when the downloaded count exceeds the total, and
\* a sample without a total leaves the published percentage as it was.
C11_PublishedPercentKnownAndCapped ==
    /\ progress # None => completed \in 0..100
    /\ hooked # NoHook =>
        /\ hooked.updated =>
            /\ hooked.d.downloaded_bytes # NoBytes /\ TotalKnown(hooked.d)
            /\ completed \in 0..100
        /\ ~TotalKnown(hooked.d) => (~hooked.updated /\ completed = hooked.before)
        /\ ~hooked.updated => completed = hooked.before

\* A sample whose downloaded count exceeds its estimated total was published,
\* as 100.
C11_Witness ==
    /\ hooked.updated
    /\ hooked.d.total_bytes = NoBytes
    /\ hooked.d.downloaded_bytes > hooked.d.total_bytes_estimate
    /\ completed = 100

(***************************************************************************)
(* Properties of the progress display in a session (checked under Spec).   *)
(***************************************************************************)

\* C12: the progress and task handles download_media sets up are cleared when
\* it ends, by a return or by a raise of the engine: whenever no download is
\* in flight there is no display, no published percentage and no sample, and
\* a download that starts finds a display that was given nothing yet.
C12_DisplayClearedWhenNoDownload ==
    /\ pc # "engaged" =>
        /\ progress = None /\ task = None
        /\ completed = NoPercent /\ hooked = NoHook
    /\ (pc = "engaged" /\ hooked = NoHook) => completed = 0

\* A batch of two supported urls: the first was fetched while the hook was
\* given samples, the second raised, and no display is left.
C12_Witness ==
    /\ entry = "batch"
    /\ pc = "batch_loop"
    /\ Len(attempted) = 2
    /\ \A i \in 1..Len(attempted) : detect_platform(attempted[i]) # None
    /\ outcomes = <<"True", "False">>
    /\ progress = None /\ task = None

====
